---- MODULE Spec2Model ----
(***************************************************************************)
(* Model of call_foursquare.js: processUserInput (Gemini extraction with   *)
(* a static fallback), searchPlaces (Foursquare place search, fail-fast),  *)
(* generateTrip (fan-out, Promise.all join, round-robin itinerary) and     *)
(* test (the entry point).                                                 *)
(*                                                                         *)
(* Texts are sequences of lexical tokens, JavaScript values are tagged     *)
(* records, and        one action is one run-to-completion turn of the     *)
(* event loop: an HTTP completion together with the chain of promise       *)
(* continuations it triggers.                                              *)
(***************************************************************************)
EXTENDS Integers, Sequences, FiniteSets, TLC

----------------------------------------------------------------------------
(* Bounds *)

\* longest result list the places endpoint answers with
MaxResults == 5
\* largest duration the generative endpoint answers with
MaxDuration == 6
\* longest category list the generative endpoint answers with
MaxCats == 2

----------------------------------------------------------------------------
(* JavaScript values *)

Undefined == [k |-> "undefined"]
Str(s) == [k |-> "str", s |-> s]
Num(n) == [k |-> "num", n |-> n]
Arr(a) == [k |-> "arr", a |-> a]
Obj(f) == [k |-> "obj", o |-> f]
\* the j-th record of the result list answered to the c-th search
Place(c, j) == [k |-> "place", p |-> <<c, j>>]
\* an Error object; name tells where it was thrown, c which search
Err(name, c) == [k |-> "error", e |-> <<name, c>>]

EmptyObject == Obj(<<>>)

\* o.key : a missing property reads as undefined
Get(o, key) == IF o.k = "obj" /\ key \in DOMAIN o.o THEN o.o[key] ELSE Undefined

\* a filter that keeps every element
Truthy_keepAll(x) == TRUE

\* Boolean(x), the predicate of .filter(Boolean)
Truthy(x) ==
  CASE x.k = "undefined" -> FALSE
    [] x.k = "num" -> x.n # 0
    [] x.k = "str" -> x.s # ""
    [] OTHER -> TRUE

\* ToLength(x) as Array.from({length: x}) applies it: ToNumber, truncate,
\* clamp below at 0.  Strings of the model are never numeric.
RECURSIVE ToLength(_)
ToLength(x) ==
  CASE x.k = "num" -> IF x.n > 0 THEN x.n ELSE 0
    [] x.k = "arr" -> IF Len(x.a) = 1 THEN ToLength(x.a[1]) ELSE 0
    [] OTHER -> 0

----------------------------------------------------------------------------
(* Tokens of the generated text *)

\* punctuation, backtick, newline, space
P(c) == [t |-> "p", v |-> c]
\* a bare word of prose, or the word json after a fence
W(w) == [t |-> "w", v |-> w]
\* a double-quoted string literal
S(s) == [t |-> "s", v |-> s]
\* a number literal
N(n) == [t |-> "n", n |-> n]

BT == P("backtick")
NL == P("\n")
SP == P(" ")
LBRACE == P("{")
RBRACE == P("}")

Fence == <<BT, BT, BT>>
FenceJson == <<BT, BT, BT, W("json")>>

Drop(s, n) == SubSeq(s, n + 1, Len(s))

StartsWith(s, pat) == Len(s) >= Len(pat) /\ SubSeq(s, 1, Len(pat)) = pat

\* s.replace(/pat/g, empty) : leftmost non-overlapping matches, one pass
RECURSIVE RemoveAll(_, _)
RemoveAll(s, pat) ==
  IF s = <<>> THEN <<>>
  ELSE IF StartsWith(s, pat) THEN RemoveAll(Drop(s, Len(pat)), pat)
  ELSE <<Head(s)>> \o RemoveAll(Tail(s), pat)

IsSpace(tok) == tok \in {SP, NL}

RECURSIVE TrimStart(_)
TrimStart(s) == IF s # <<>> /\ IsSpace(Head(s)) THEN TrimStart(Tail(s)) ELSE s

RECURSIVE TrimEnd(_)
TrimEnd(s) ==
  IF s # <<>> /\ IsSpace(s[Len(s)]) THEN TrimEnd(SubSeq(s, 1, Len(s) - 1)) ELSE s

\* s.trim()
Trim(s) == TrimEnd(TrimStart(s))

\* the chain of .replace calls and .trim() of lines 50-54
CleanText(s) ==
  Trim(RemoveAll(RemoveAll(RemoveAll(s, FenceJson), Fence), <<NL>>))

\* s.indexOf(tok) : 0-based, -1 when absent
IndexOf(s, tok) ==
  IF \E i \in 1..Len(s) : s[i] = tok
  THEN (CHOOSE i \in 1..Len(s) : s[i] = tok /\ \A j \in 1..(i - 1) : s[j] # tok) - 1
  ELSE -1

\* s.lastIndexOf(tok) : 0-based, -1 when absent
LastIndexOf(s, tok) ==
  IF \E i \in 1..Len(s) : s[i] = tok
  THEN (CHOOSE i \in 1..Len(s) : s[i] = tok /\ \A j \in (i + 1)..Len(s) : s[j] # tok) - 1
  ELSE -1

Max(a, b) == IF a >= b THEN a ELSE b
Min(a, b) == IF a <= b THEN a ELSE b

\* s.slice(start, end) with 0-based, possibly negative indices
Slice(s, start, end) ==
  LET from == IF start < 0 THEN Max(Len(s) + start, 0) ELSE Min(start, Len(s))
      to == IF end < 0 THEN Max(Len(s) + end, 0) ELSE Min(end, Len(s))
  IN  IF from >= to THEN <<>> ELSE SubSeq(s, from + 1, to)

\* lines 57-59: from the first { to the last } inclusive
ExtractJson(text) ==
  Slice(text, IndexOf(text, LBRACE), LastIndexOf(text, RBRACE) + 1)

----------------------------------------------------------------------------
(* JSON.parse on token sequences: objects, arrays, strings, numbers *)

ParseFail == [ok |-> FALSE, val |-> Undefined, rest |-> <<>>]
ParseOk(val, rest) == [ok |-> TRUE, val |-> val, rest |-> rest]

RECURSIVE SkipWs(_)
SkipWs(s) == IF s # <<>> /\ IsSpace(Head(s)) THEN SkipWs(Tail(s)) ELSE s

RECURSIVE ParseValue(_)
RECURSIVE ParseMembers(_, _)
RECURSIVE ParseElements(_, _)

\* members after the opening brace or after a comma; acc is the object so
\* far, a repeated key overwrites
ParseMembers(s0, acc) ==
  LET s == SkipWs(s0) IN
  IF s = <<>> \/ Head(s).t # "s" THEN ParseFail
  ELSE LET key == Head(s).v
           s1 == SkipWs(Tail(s))
       IN  IF s1 = <<>> \/ Head(s1) # P(":") THEN ParseFail
           ELSE LET r == ParseValue(Tail(s1)) IN
                IF ~r.ok THEN ParseFail
                ELSE LET acc1 == (key :> r.val) @@ acc
                         s2 == SkipWs(r.rest)
                     IN  IF s2 = <<>> THEN ParseFail
                         ELSE IF Head(s2) = P(",") THEN ParseMembers(Tail(s2), acc1)
                         ELSE IF Head(s2) = RBRACE THEN ParseOk(Obj(acc1), Tail(s2))
                         ELSE ParseFail

\* elements after the opening bracket or after a comma
ParseElements(s0, acc) ==
  LET r == ParseValue(s0) IN
  IF ~r.ok THEN ParseFail
  ELSE LET acc1 == Append(acc, r.val)
           s2 == SkipWs(r.rest)
       IN  IF s2 = <<>> THEN ParseFail
           ELSE IF Head(s2) = P(",") THEN ParseElements(Tail(s2), acc1)
           ELSE IF Head(s2) = P("]") THEN ParseOk(Arr(acc1), Tail(s2))
           ELSE ParseFail

ParseValue(s0) ==
  LET s == SkipWs(s0) IN
  IF s = <<>> THEN ParseFail
  ELSE LET tok == Head(s) IN
       CASE tok.t = "s" -> ParseOk(Str(tok.v), Tail(s))
         [] tok.t = "n" -> ParseOk(Num(tok.n), Tail(s))
         [] tok = LBRACE ->
              LET s1 == SkipWs(Tail(s)) IN
              IF s1 # <<>> /\ Head(s1) = RBRACE THEN ParseOk(EmptyObject, Tail(s1))
              ELSE ParseMembers(s1, <<>>)
         [] tok = P("[") ->
              LET s1 == SkipWs(Tail(s)) IN
              IF s1 # <<>> /\ Head(s1) = P("]") THEN ParseOk(Arr(<<>>), Tail(s1))
              ELSE ParseElements(s1, <<>>)
         [] OTHER -> ParseFail

\* JSON.parse(s): ok is FALSE where JSON.parse throws a SyntaxError
JSONparse(s) ==
  LET r == ParseValue(s) IN
  IF r.ok /\ SkipWs(r.rest) = <<>> THEN r ELSE ParseFail

----------------------------------------------------------------------------
(* processUserInput *)

\* a fallback of 2 days
Fallback_twoDays ==
  Obj([categories |-> Arr(<<Str("food"), Str("culture"), Str("nature")>>),
       location |-> Str("Montreal"),
       duration |-> Num(2),
       pace |-> Str("high"),
       budget |-> Str("high")])

\* the object literal of the catch block, lines 68-74
Fallback ==
  Obj([categories |-> Arr(<<Str("food"), Str("culture"), Str("nature")>>),
       location |-> Str("Montreal"),
       duration |-> Num(3),
       pace |-> Str("high"),
       budget |-> Str("high")])

LogLine(fn, msg) == [fn |-> fn, msg |-> msg]

\* responses of the generative endpoint
HttpError == [kind |-> "httpError", text |-> <<>>]
\* a 2xx body without candidates[0].content.parts[0].text
NoText == [kind |-> "noText", text |-> <<>>]
TextResponse(t) == [kind |-> "text", text |-> t]
NoResponse == [kind |-> "none", text |-> <<>>]

\* how a call ends: kind is "return" or "throw", logs the lines it wrote
Completion(kind, value, logs) == [kind |-> kind, value |-> value, logs |-> logs]

\* a catch block that logs and throws the error again
processUserInputCatch_rethrow(error) ==
  Completion("throw", error, <<LogLine("processUserInput", "Gemini API Error:")>>)

\* the catch block of processUserInput, lines 64-75
processUserInputCatch(error) ==
  Completion("return", Fallback, <<LogLine("processUserInput", "Gemini API Error:")>>)

\* the try block of processUserInput from the completion of axios.post on,
\* lines 22-62, with the catch block
processUserInput(resp) ==
  IF resp.kind = "httpError" THEN processUserInputCatch(Err("AxiosError", 0))
  ELSE IF resp.kind = "noText" THEN processUserInputCatch(Err("TypeError", 0))
  ELSE LET generatedText == CleanText(resp.text)
           jsonStr == ExtractJson(generatedText)
           parsed == JSONparse(jsonStr)
       IN  IF parsed.ok THEN Completion("return", parsed.val, <<>>)
           ELSE processUserInputCatch(Err("SyntaxError", 0))

----------------------------------------------------------------------------
(* Texts the generative endpoint answers with *)

Member(key, val) == <<S(key), P(":")>> \o val

\* the members separated by commas
RECURSIVE Join(_)
Join(ms) ==
  IF ms = <<>> THEN <<>>
  ELSE IF Len(ms) = 1 THEN ms[1]
  ELSE ms[1] \o <<P(",")>> \o Join(Tail(ms))

ObjectText(ms) == <<LBRACE>> \o Join(ms) \o <<RBRACE>>
ArrayText(strs) == <<P("[")>> \o Join([i \in 1..Len(strs) |-> <<S(strs[i])>>]) \o <<P("]")>>

CategoryNames == <<"food", "culture", "nature", "shopping", "nightlife">>
CatList(n) == [i \in 1..n |-> CategoryNames[i]]

\* no categories member, a string instead of an array, or an array
CatMembers ==
  {<<>>, <<Member("categories", <<S("food")>>)>>}
    \cup {<<Member("categories", ArrayText(CatList(n)))>> : n \in 0..MaxCats}

\* no duration member, or a number
DurMembers ==
  {<<>>} \cup {<<Member("duration", <<N(d)>>)>> : d \in (0 - 1)..MaxDuration}

LocMembers == {<<>>, <<Member("location", <<S("Bordeaux")>>)>>}

PaceBudget == <<Member("pace", <<S("low")>>), Member("budget", <<S("medium")>>)>>

\* objects that JSON.parse accepts: with all five members or with some missing
Bodies ==
  {ObjectText(c \o l \o d \o (IF l = <<>> THEN <<>> ELSE PaceBudget)) :
     c \in CatMembers, l \in LocMembers, d \in DurMembers}

\* the object the spec's fencing example is about
ExampleBody ==
  ObjectText(<<Member("categories", ArrayText(<<"a">>)),
               Member("location", <<S("X")>>),
               Member("duration", <<N(1)>>),
               Member("pace", <<S("low")>>),
               Member("budget", <<S("low")>>)>>)

\* an object with a nested object, so that its truncations keep a }
NestedBody ==
  ObjectText(<<Member("extra", <<LBRACE, RBRACE>>),
               Member("categories", ArrayText(<<"food">>)),
               Member("location", <<S("X")>>),
               Member("duration", <<N(2)>>),
               Member("pace", <<S("low")>>),
               Member("budget", <<S("low")>>)>>)

\* fencing, newlines, surrounding prose and blanks around an object
Wrappings(b) ==
  {FenceJson \o <<NL>> \o b \o <<NL>> \o Fence,
   Fence \o <<NL>> \o b \o <<NL>> \o Fence \o <<NL>>,
   <<W("Here"), SP, W("you"), SP, W("go"), P(":"), NL>> \o b \o <<SP>>,
   <<SP, NL>> \o SubSeq(b, 1, 1) \o <<NL, SP>> \o Drop(b, 1)}

WellFormedTexts ==
  Bodies \cup {ExampleBody, NestedBody}
    \cup Wrappings(ExampleBody) \cup Wrappings(NestedBody)

Truncations(b) == {SubSeq(b, 1, n) : n \in 0..(Len(b) - 1)}

\* texts without a { } pair, truncated objects, and text that is not JSON
\* between its first { and its last }
MalformedTexts ==
  Truncations(NestedBody)
    \cup {FenceJson \o <<NL>> \o t : t \in Truncations(ExampleBody)}
    \cup {<<W("Sorry"), SP, W("no"), SP, W("trip")>>,
          <<RBRACE, SP, LBRACE>>,
          ExampleBody \o <<SP>> \o ExampleBody,
          <<LBRACE, S("duration"), P(":"), N(2), P(","), RBRACE>>,
          <<LBRACE, W("duration"), P(":"), N(2), RBRACE>>}

\* every response the extraction is applied to
ExtractorResponses ==
  {HttpError, NoText}
    \cup {TextResponse(t) : t \in WellFormedTexts \cup MalformedTexts}

\* a truncation of NestedBody right after its inner }
TruncatedText == SubSeq(NestedBody, 1, 6)

\* the responses a whole trip generation is run from
GeminiResponses ==
  {HttpError, NoText}
    \cup {TextResponse(t) : t \in Bodies}
    \cup {TextResponse(TruncatedText),
          TextResponse(<<W("Sorry"), SP, W("no"), SP, W("trip")>>),
          TextResponse(FenceJson \o <<NL>> \o ExampleBody \o <<NL>> \o Fence)}

----------------------------------------------------------------------------
(* searchPlaces *)

\* limit: 5 of the query parameters, line 129
Limit == 5

\* outcomes of one GET on the places endpoint: a transport or HTTP error,
\* or a body whose results list has n records
FoursquareOutcomes ==
  {[ok |-> FALSE, n |-> 0]} \cup {[ok |-> TRUE, n |-> n] : n \in 0..MaxResults}

\* response.data.results of the c-th search
Results(c, out) == Arr([j \in 1..out.n |-> Place(c, j)])

\* a catch block that logs and returns no places instead of throwing
searchPlacesCatch_swallow(error) ==
  Completion("return", Arr(<<>>), <<LogLine("searchPlaces", "Foursquare API Error:")>>)

\* the catch block of searchPlaces, lines 102-105
searchPlacesCatch(error) ==
  Completion("throw", error, <<LogLine("searchPlaces", "Foursquare API Error:")>>)

\* searchPlaces from the completion of axios.get on, lines 87-105
searchPlaces(c, out) ==
  IF out.ok THEN Completion("return", Results(c, out), <<>>)
  ELSE searchPlacesCatch(Err("AxiosError", c))

----------------------------------------------------------------------------
(* Promise.all *)

PromisePending == [state |-> "pending", value |-> Undefined]

\* Promise.all over n pending promises; over none it is fulfilled at once
PromiseAll(n) ==
  [state |-> IF n = 0 THEN "fulfilled" ELSE "pending",
   values |-> [i \in 1..n |-> Undefined],
   remaining |-> n,
   reason |-> Undefined]

\* a join that collects the values in the order of completion
PromiseAllResolveElement_completionOrder(all, index, x) ==
  [all EXCEPT !.values = [@ EXCEPT ![Len(all.values) - all.remaining + 1] = x],
              !.remaining = @ - 1,
              !.state = IF @ = "pending" /\ all.remaining = 1 THEN "fulfilled" ELSE @]

\* the resolve element function of the index-th promise
PromiseAllResolveElement(all, index, x) ==
  [all EXCEPT !.values = [@ EXCEPT ![index] = x],
              !.remaining = @ - 1,
              !.state = IF @ = "pending" /\ all.remaining = 1 THEN "fulfilled" ELSE @]

\* the reject function of the combined promise: only the first call settles it
PromiseAllReject(all, reason) ==
  IF all.state = "pending"
  THEN [all EXCEPT !.state = "rejected", !.reason = reason]
  ELSE all

----------------------------------------------------------------------------
(* generateTrip *)

\* the query parameters of one search, lines 126-131
SearchParams(category, preferences) ==
  [query |-> category,
   near |-> Get(preferences, "location"),
   limit |-> Limit,
   sort |-> "RATING"]

\* a fan-out that leaves the last category out
IssueSearches_dropLast(preferences) ==
  LET categories == Get(preferences, "categories").a
  IN  [c \in 1..(Len(categories) - 1) |-> SearchParams(categories[c], preferences)]

\* tripPreferences.categories.map(category => searchPlaces({...})):
\* the requests issued, in the order of the categories
IssueSearches(preferences) ==
  LET categories == Get(preferences, "categories").a
  IN  [c \in 1..Len(categories) |-> SearchParams(categories[c], preferences)]

\* a selection that stays on the last place instead of wrapping around
PickPlace_clamp(categoryPlaces, i) ==
  IF Len(categoryPlaces.a) = 0 THEN Undefined
  ELSE categoryPlaces.a[Min(i, Len(categoryPlaces.a) - 1) + 1]

\* categoryPlaces[i % categoryPlaces.length], line 143; i % 0 is NaN and
\* indexing by NaN gives undefined
PickPlace(categoryPlaces, i) ==
  IF Len(categoryPlaces.a) = 0 THEN Undefined
  ELSE categoryPlaces.a[(i % Len(categoryPlaces.a)) + 1]

\* days numbered from 0
ItineraryDay_zeroBased(placesResults, i) ==
  [day |-> i,
   places |-> SelectSeq([c \in 1..Len(placesResults) |-> PickPlace(placesResults[c], i)],
                        Truthy)]

\* one element of the itinerary, lines 139-145, for the 0-based index i
ItineraryDay(placesResults, i) ==
  [day |-> i + 1,
   places |-> SelectSeq([c \in 1..Len(placesResults) |-> PickPlace(placesResults[c], i)],
                        Truthy)]

\* Array.from({ length: tripPreferences.duration }, (_, i) => ...)
BuildItinerary(preferences, placesResults) ==
  [d \in 1..ToLength(Get(preferences, "duration")) |->
     ItineraryDay(placesResults, d - 1)]

\* a catch block that throws again without logging
generateTripCatch_silent(error) == Completion("throw", error, <<>>)

\* the catch block of generateTrip, lines 153-156
generateTripCatch(error) ==
  Completion("throw", error, <<LogLine("generateTrip", "Error generating trip:")>>)

\* generateTrip from the settling of Promise.all on, lines 135-156
generateTripAfterJoin(preferences, all) ==
  IF all.state = "fulfilled"
  THEN Completion("return",
                  [preferences |-> preferences,
                   itinerary |-> BuildItinerary(preferences, all.values)],
                  <<>>)
  ELSE generateTripCatch(all.reason)

\* tripPreferences.categories.map exists only on an array
HasMap(x) == x.k = "arr"

----------------------------------------------------------------------------
(* test *)

\* the catch block of test, lines 171-173
testCatch(error) == <<LogLine("test", "Test Error:")>>

\* what test writes with console.error once generateTrip has completed
testLogs(gen) == IF gen.kind = "throw" THEN testCatch(gen.value) ELSE <<>>

\* what test writes with console.log once generateTrip has completed
testPrints(gen) == IF gen.kind = "return" THEN <<gen.value>> ELSE <<>>

----------------------------------------------------------------------------
(* State *)

VARIABLES
  pc,         \* "start", "awaitGemini", "awaitAll" or "done"
  userInput,  \* the argument of generateTrip
  posts,      \* the prompts posted to the generative endpoint
  response,   \* the response of the generative endpoint
  tripPreferences,  \* the value processUserInput returned
  requests,   \* the query parameters of the searches issued, in order
  placesPromises,   \* the promise of each searchPlaces call
  arrivals,   \* the answers of the places endpoint, in the order they came
  all,        \* the promise of Promise.all(placesPromises)
  logs,       \* the lines written with console.error, in order
  stdout,     \* the values written with console.log, in order
  result      \* how generateTrip completed

vars == <<pc, userInput, posts, response, tripPreferences, requests,
          placesPromises, arrivals, all, logs, stdout, result>>

UserInputs ==
  {"I want to spend 2 days in Bordeaux exploring food and culture.",
   "a weekend in Paris"}

\* the text of the prompt, lines 27-34
Prompt(input) ==
  [before |-> "Return ONLY a JSON object (no backticks, no markdown) for this trip request: ",
   request |-> input,
   format |-> "categories, location, duration, pace, budget"]

Pending == [kind |-> "pending", value |-> Undefined]

Init ==
  /\ pc = "start"
  /\ userInput \in UserInputs
  /\ posts = <<>>
  /\ response = NoResponse
  /\ tripPreferences = Undefined
  /\ requests = <<>>
  /\ placesPromises = <<>>
  /\ arrivals = <<>>
  /\ all = PromiseAll(0)
  /\ logs = <<>>
  /\ stdout = <<>>
  /\ result = Pending

\* generateTrip completes with gen and test, awaiting it, resumes
Finish(gen, logsBefore) ==
  /\ result' = [kind |-> gen.kind, value |-> gen.value]
  /\ logs' = logsBefore \o gen.logs \o testLogs(gen)
  /\ stdout' = stdout \o testPrints(gen)
  /\ pc' = "done"

\* test() calls generateTrip, which calls processUserInput, which posts the
\* prompt and awaits the response
test ==
  /\ pc = "start"
  /\ posts' = Append(posts, Prompt(userInput))
  /\ pc' = "awaitGemini"
  /\ UNCHANGED <<userInput, response, tripPreferences, requests,
                 placesPromises, arrivals, all, logs, stdout, result>>

\* the generative endpoint answers: processUserInput resumes and returns,
\* generateTrip resumes, issues the searches and awaits Promise.all
GeminiResponds(resp) ==
  /\ pc = "awaitGemini"
  /\ response' = resp
  /\ LET ext == processUserInput(resp)
         preferences == ext.value
     IN  IF ext.kind = "throw"
         THEN /\ Finish(generateTripCatch(ext.value), logs \o ext.logs)
              /\ UNCHANGED <<tripPreferences, requests, placesPromises, all>>
         ELSE /\ tripPreferences' = preferences
              /\ IF ~HasMap(Get(preferences, "categories"))
                 THEN /\ Finish(generateTripCatch(Err("TypeError", 0)), logs \o ext.logs)
                      /\ UNCHANGED <<requests, placesPromises, all>>
                 ELSE /\ requests' = IssueSearches(preferences)
                      /\ placesPromises' = [c \in 1..Len(requests') |-> PromisePending]
                      /\ all' = PromiseAll(Len(requests'))
                      /\ IF all'.state = "pending"
                         THEN /\ pc' = "awaitAll"
                              /\ logs' = logs \o ext.logs
                              /\ UNCHANGED <<stdout, result>>
                         ELSE Finish(generateTripAfterJoin(preferences, all'),
                                     logs \o ext.logs)
  /\ UNCHANGED <<userInput, posts, arrivals>>

\* the places endpoint answers the c-th search: searchPlaces resumes and
\* settles its promise, Promise.all reacts, and when that settles the
\* combined promise generateTrip resumes
FoursquareResponds(c, out) ==
  /\ pc \in {"awaitAll", "done"}
  /\ c \in DOMAIN placesPromises
  /\ placesPromises[c].state = "pending"
  /\ LET sp == searchPlaces(c, out)
         all1 == IF sp.kind = "return"
                 THEN PromiseAllResolveElement(all, c, sp.value)
                 ELSE PromiseAllReject(all, sp.value)
     IN  /\ placesPromises' = [placesPromises EXCEPT ![c] =
                           [state |-> IF sp.kind = "return" THEN "fulfilled" ELSE "rejected",
                            value |-> sp.value]]
         /\ all' = all1
         /\ IF all.state = "pending" /\ all1.state # "pending"
            THEN Finish(generateTripAfterJoin(tripPreferences, all1), logs \o sp.logs)
            ELSE /\ logs' = logs \o sp.logs
                 /\ UNCHANGED <<pc, stdout, result>>
  /\ arrivals' = Append(arrivals, [c |-> c, out |-> out])
  /\ UNCHANGED <<userInput, posts, response, tripPreferences, requests>>

Next ==
  \/ test
  \/ \E resp \in GeminiResponses : GeminiResponds(resp)
  \/ \E c \in 1..Len(CategoryNames), out \in FoursquareOutcomes : FoursquareResponds(c, out)

Spec == Init /\ [][Next]_vars

\* the extraction alone, on every response, the searches never answered
NextExtractor ==
  \/ test
  \/ \E resp \in ExtractorResponses : GeminiResponds(resp)

SpecExtractor == Init /\ [][NextExtractor]_vars

----------------------------------------------------------------------------
(* Vocabulary of the properties *)

\* the fallback value as the specification writes it
SpecFallback ==
  Obj(("categories" :> Arr(<<Str("food"), Str("culture"), Str("nature")>>))
        @@ ("location" :> Str("Montreal"))
        @@ ("duration" :> Num(3))
        @@ ("pace" :> Str("high"))
        @@ ("budget" :> Str("high")))

\* processUserInput has completed
Extracted == response.kind # "none"

\* the generative call failed, its response lacks the text, or the text is
\* malformed
ExtractorFailure ==
  \/ response.kind \in {"httpError", "noText"}
  \/ response.kind = "text" /\ response.text \in MalformedTexts

Levels == {"low", "medium", "high"}

\* the TripPreferences shape of the data model
ConformsToTripPreferences(x) ==
  /\ x.k = "obj"
  /\ {"categories", "location", "duration", "pace", "budget"} \subseteq DOMAIN x.o
  /\ x.o["categories"].k = "arr"
  /\ \A i \in 1..Len(x.o["categories"].a) : x.o["categories"].a[i].k = "str"
  /\ x.o["location"].k = "str"
  /\ x.o["duration"].k = "num"
  /\ x.o["duration"].n > 0
  /\ x.o["pace"].k = "str"
  /\ x.o["pace"].s \in Levels
  /\ x.o["budget"].k = "str"
  /\ x.o["budget"].s \in Levels

Answered(c) == \E i \in 1..Len(arrivals) : arrivals[i].c = c
AnswerOf(c) == arrivals[CHOOSE i \in 1..Len(arrivals) : arrivals[i].c = c].out
SearchFailed(c) == Answered(c) /\ ~AnswerOf(c).ok
SearchSucceeded(c) == Answered(c) /\ AnswerOf(c).ok
AllSucceeded == \A c \in 1..Len(requests) : SearchSucceeded(c)
AnyFailed == \E c \in 1..Len(requests) : SearchFailed(c)

\* the category whose search was the first to fail
FirstFailed ==
  arrivals[CHOOSE i \in 1..Len(arrivals) :
             /\ ~arrivals[i].out.ok
             /\ \A j \in 1..(i - 1) : arrivals[j].out.ok].c

Returned == result.kind = "return"
Raised == result.kind = "throw"
Itinerary == result.value.itinerary
Categories == Get(tripPreferences, "categories")
Duration == Get(tripPreferences, "duration")

\* the places of category c in the places of a day
PlacesOf(c, places) == {i \in 1..Len(places) : places[i].k = "place" /\ places[i].p[1] = c}

NonEmptyAnswer(c) == AnswerOf(c).n > 0

\* the categories with a non-empty result list, in the order of the categories
NonEmptyCategories == SelectSeq([c \in 1..Len(requests) |-> c], NonEmptyAnswer)

\* the lines written before test's own line
RECURSIVE BeforeCaller(_)
BeforeCaller(ls) ==
  IF ls = <<>> \/ Head(ls).fn = "test" THEN <<>>
  ELSE <<Head(ls)>> \o BeforeCaller(Tail(ls))

ClientOrBuilderLine(l) == l.fn \in {"searchPlaces", "generateTrip"}

\* generateTrip raised the failure of a search
RaisedSearchFailure ==
  Raised /\ result.value.k = "error" /\ result.value.e[1] = "AxiosError"

----------------------------------------------------------------------------
(* Properties *)

\* C1: whenever the generative call fails, the response lacks the text, or
\* the text has no { } pair or is truncated or unparseable, processUserInput
\* completes normally with exactly the fallback value.
C1_FallbackOnFailure ==
  (Extracted /\ ExtractorFailure) =>
     /\ tripPreferences = SpecFallback
     /\ ~(Raised /\ result.value.k = "error" /\ result.value.e[2] = 0)

\* a truncated object that still has a { before a } was answered
C1_Witness ==
  /\ Extracted
  /\ response.kind = "text"
  /\ response.text \in MalformedTexts
  /\ IndexOf(response.text, LBRACE) >= 0
  /\ LastIndexOf(response.text, RBRACE) > IndexOf(response.text, LBRACE)
  /\ tripPreferences = SpecFallback

\* C2: the value processUserInput returns always conforms to the
\* TripPreferences shape.
C2_AlwaysConforms == Extracted => ConformsToTripPreferences(tripPreferences)

\* C3: once a search has failed, generateTrip has raised the failure of the
\* first search to fail (the only one when one failed) and nothing was
\* returned or printed.
C3_SearchFailureRaised ==
  AnyFailed =>
     /\ Raised
     /\ result.value = Err("AxiosError", FirstFailed)
     /\ stdout = <<>>

\* two searches failed and another one had succeeded with places
C3_Witness ==
  /\ \E c1, c2 \in 1..Len(requests) : c1 # c2 /\ SearchFailed(c1) /\ SearchFailed(c2)
  /\ \E c \in 1..Len(requests) : SearchSucceeded(c) /\ AnswerOf(c).n > 0
  /\ Raised

\* C4: a returned plan for a duration D >= 0 and C categories has exactly D
\* days numbered 1..D in order, each with at most C places; D = 0 gives the
\* empty itinerary.
C4_ItineraryLength ==
  (Returned /\ Duration.k = "num" /\ Duration.n >= 0) =>
     /\ Len(Itinerary) = Duration.n
     /\ \A d \in 1..Len(Itinerary) :
          /\ Itinerary[d].day = d
          /\ Len(Itinerary[d].places) <= Len(Categories.a)
     /\ (Duration.n = 0 => Itinerary = <<>>)

\* a plan of several days over two categories, one of them without places
C4_Witness ==
  /\ Returned
  /\ Duration.k = "num"
  /\ Duration.n >= 2
  /\ Len(Categories.a) = 2
  /\ Len(Itinerary[2].places) = 1

\* C5: in a returned plan, a category with a non-empty result list
\* contributes to the day of 0-based index i exactly its element of index
\* i mod length.
C5_RoundRobin ==
  Returned =>
     \A d \in 1..Len(Itinerary), c \in 1..Len(requests) :
        AnswerOf(c).n > 0 =>
           /\ Cardinality(PlacesOf(c, Itinerary[d].places)) = 1
           /\ \E i \in PlacesOf(c, Itinerary[d].places) :
                Itinerary[d].places[i] = Place(c, ((d - 1) % AnswerOf(c).n) + 1)

\* result lists of 3 and 5 places and 6 days: the day of index 4 has the
\* elements of index 1 and 4
C5_Witness ==
  /\ Returned
  /\ Len(requests) = 2
  /\ AnswerOf(1).n = 3
  /\ AnswerOf(2).n = 5
  /\ Len(Itinerary) = 6
  /\ Itinerary[5].places = <<Place(1, 2), Place(2, 5)>>

\* C6: when every search succeeds and one answers an empty list,
\* generateTrip returns, no day has a place of that category, and every day
\* has one place for each of the other, non-empty categories.
C6_EmptyCategoryOmitted ==
  (pc = "done" /\ Categories.k = "arr" /\ AllSucceeded
     /\ \E c \in 1..Len(requests) : AnswerOf(c).n = 0) =>
     /\ Returned
     /\ \A d \in 1..Len(Itinerary) :
          /\ \A c \in 1..Len(requests) :
               AnswerOf(c).n = 0 => PlacesOf(c, Itinerary[d].places) = {}
          /\ \A i \in 1..Len(Itinerary[d].places) : Itinerary[d].places[i].k = "place"
          /\ Len(Itinerary[d].places) = Len(NonEmptyCategories)

\* an empty first category beside a non-empty second one, over several days
C6_Witness ==
  /\ Returned
  /\ Len(requests) = 2
  /\ AllSucceeded
  /\ AnswerOf(1).n = 0
  /\ AnswerOf(2).n >= 2
  /\ Len(Itinerary) >= 2
  /\ Itinerary[2].places = <<Place(2, 2)>>

\* C7 as stated: when generateTrip raises the failure of a search, exactly
\* one line was logged by searchPlaces and generateTrip together before the
\* failure reached the caller.
C7_LoggedOnce ==
  RaisedSearchFailure =>
     Len(SelectSeq(BeforeCaller(logs), ClientOrBuilderLine)) = 1

\* C7 amended: when generateTrip raises the failure of a search, exactly two
\* lines were logged before the failure reached the caller, one by
\* searchPlaces and then one by generateTrip.
C7_LoggedByClientThenBuilder ==
  RaisedSearchFailure =>
     SelectSeq(BeforeCaller(logs), ClientOrBuilderLine)
       = <<LogLine("searchPlaces", "Foursquare API Error:"),
           LogLine("generateTrip", "Error generating trip:")>>

\* generateTrip raised the failure of a search and test logged it
C7_Witness ==
  /\ RaisedSearchFailure
  /\ AnyFailed
  /\ logs[Len(logs)].fn = "test"

\* C8: once processUserInput has returned an array of categories, exactly
\* one search per category is issued, in order, each with query, near,
\* limit 5 and sort RATING, all before any answer is handled and never
\* again; a plan is returned only after every search has succeeded.
C8_FanOutJoin ==
  (pc \in {"awaitAll", "done"} /\ Categories.k = "arr") =>
     /\ Len(requests) = Len(Categories.a)
     /\ \A c \in 1..Len(requests) :
          requests[c] = [query |-> Categories.a[c],
                         near |-> Get(tripPreferences, "location"),
                         limit |-> 5,
                         sort |-> "RATING"]
     /\ \A i \in 1..Len(arrivals) : arrivals[i].c \in 1..Len(requests)
     /\ \A i, j \in 1..Len(arrivals) : arrivals[i].c = arrivals[j].c => i = j
     /\ (Returned => AllSucceeded)
     /\ (pc = "awaitAll" => \E c \in 1..Len(requests) : ~Answered(c))

\* two searches are in flight, the second one answered, the first one not
C8_Witness ==
  /\ pc = "awaitAll"
  /\ Len(requests) = 2
  /\ Answered(2)
  /\ ~Answered(1)
  /\ result.kind = "pending"

\* C9: when the generative call fails or answers malformed text,
\* generateTrip goes on with the fallback preferences: it searches food,
\* culture and nature near Montreal, raises only if a search fails, and
\* when the three searches succeed it returns the fallback preferences with
\* an itinerary of 3 days.
C9_ExtractorFailureContinues ==
  (Extracted /\ ExtractorFailure) =>
     /\ [c \in 1..Len(requests) |-> <<requests[c].query, requests[c].near>>]
          = <<<<Str("food"), Str("Montreal")>>,
              <<Str("culture"), Str("Montreal")>>,
              <<Str("nature"), Str("Montreal")>>>>
     /\ (Raised => AnyFailed)
     /\ (AllSucceeded =>
           /\ Returned
           /\ result.value.preferences = SpecFallback
           /\ Len(Itinerary) = 3)

\* the generative call failed and a plan of 3 days was returned
C9_Witness ==
  /\ response.kind = "httpError"
  /\ Returned
  /\ Len(Itinerary) = 3
  /\ Len(Itinerary[3].places) = 3

\* C10: in a returned plan the places of every day are those of the
\* non-empty categories in the order of preferences.categories, whatever
\* the order in which the searches were answered: the plan is a function of
\* the preferences and of the result lists alone.
C10_OrderIndependent ==
  Returned =>
     /\ result.value.preferences = tripPreferences
     /\ Len(Itinerary) = ToLength(Duration)
     /\ \A d \in 1..Len(Itinerary) :
          Itinerary[d].places =
            [k \in 1..Len(NonEmptyCategories) |->
               Place(NonEmptyCategories[k],
                     ((d - 1) % AnswerOf(NonEmptyCategories[k]).n) + 1)]

\* the second search was answered before the first one, both with places
C10_Witness ==
  /\ Returned
  /\ Len(arrivals) = 2
  /\ arrivals[1].c = 2
  /\ arrivals[2].c = 1
  /\ Len(Itinerary) >= 1
  /\ Len(Itinerary[1].places) = 2

====
